---- MODULE Spec2Model ----
\* Agent/tool orchestration loop (LangGraph StateGraph with an "agent" node, a
\* ToolNode and tools_condition) of main_normal.py, main_tools.py, main_mcp.py
\* and main_mcp_async.py, the MCP session manager of the latter two, the text
\* conversion of call_tool and the calculate tool.
EXTENDS Integers, Sequences, FiniteSets, TLC

\* ---------------------------------------------------------------- bounds
\* Most tool requests the modelled LLM puts in one Assistant turn.
MaxCalls == 3
\* Tool invocations of a run that do not end with a plain result.
MaxFaults == 1
\* Tool-requesting Assistant turns of a run under Spec; SpecLimit lets the
\* LLM go on up to the recursion limit.
MaxRounds == 3
\* Sessions opened on one manager by the free-form client of SpecManager.
MaxSessions == 2
\* call_tool invocations made by the free-form client of SpecManager.
MaxApiCalls == 3
\* Most content items of one CallToolResult.
MaxItems == 3
\* Largest magnitude of the numbers calculate is tried with.
MaxNum == 2

\* graph.invoke / graph.ainvoke are called without a config, so the graph
\* runs under the default recursion limit of the library: 25 supersteps.
RecursionLimit == 25

\* ---------------------------------------------------------------- state
VARIABLES
    entry,      \* which program runs: "normal", "tools", "mcp", "mcp_async"
    handleAll,  \* the installed ToolNode's default handle_tool_errors:
                \* TRUE = every tool exception becomes an error ToolMessage,
                \* FALSE = only argument-validation errors do, others re-raise
    pc,         \* position of main()
    conn,       \* how connect() went: "none" (not called), "ok", "raised"
    session,    \* mcp_manager.session: 0 = None, else the session's number
    live,       \* sessions whose transport is open and initialized
    broken,     \* live sessions whose transport has dropped
    nsess,      \* sessions created so far
    attempts,   \* calls of ClientSession.call_tool made so far
    lastCall,   \* how the latest call_tool / tool handler call went
    loop,       \* state of the graph run
    err,        \* exception that ended the graph run, "none" if none
    messages,   \* MessagesState["messages"]
    step,       \* supersteps executed by the graph run
    calls,      \* tool calls of the running ToolNode step, in request order
    order,      \* indices of calls in the order they completed
    llmCalls,   \* LLM invocations made so far
    richOK,     \* whether the modelled LLM may give a rich reply now: it
                \* may as its first reply, later replies are plain
    faultsLeft, \* faulty invocations the environment may still produce
    roundsLeft, \* tool-requesting turns the modelled LLM may still give
    nextId,     \* next tool call id the LLM hands out
    apiCalls,   \* call_tool invocations made by the free-form client
    callResult, \* what the latest call_tool / tool handler gave its caller:
                \* "Text" (a returned string) or the exception it raised
    catalog,    \* tool names the remote catalog listed, {} before it is read
    bound,      \* tool names bound to the LLM and to the ToolNode
    content,    \* CallToolResult.content given to the text conversion
    text,       \* the string call_tool made of content
    operation,  \* calculate's argument operation
    a,          \* calculate's argument a
    b,          \* calculate's argument b
    result      \* what calculate gave: a returned text or an exception

vars == <<entry, handleAll, pc, conn, session, live, broken, nsess, attempts, lastCall,
          loop, err, messages, step, calls, order, llmCalls, richOK, faultsLeft,
          roundsLeft, nextId, apiCalls, callResult, catalog, bound, content, text,
          operation, a, b, result>>

mgrVars == <<conn, session, live, broken, nsess, attempts, lastCall, callResult>>
loopVars == <<loop, err, messages, step, calls, order, llmCalls, richOK, faultsLeft,
              roundsLeft, nextId>>
graphVars == <<catalog, bound>>
pureVars == <<content, text, operation, a, b, result>>

Entries == {"normal", "tools", "mcp", "mcp_async"}

\* The programs whose calculate is a local @tool: main_normal, main_tools.
Local == entry \in {"normal", "tools"}
ToolNames == {"calculate", "other"}
ArgKinds == {"valid", "invalid"}

\* ---------------------------------------------------------------- turns
HumanMessage ==
    [role |-> "Human", toolCalls |-> <<>>, toolCallId |-> 0, text |-> "query"]

AIMessage(tc) ==
    [role |-> "Assistant", toolCalls |-> tc, toolCallId |-> 0,
     text |-> IF tc = <<>> THEN "answer" ELSE ""]

\* A ToolMessage that loses the id of the request it answers.
ToolMessageUncorrelated(id, txt) ==
    [role |-> "ToolResult", toolCalls |-> <<>>, toolCallId |-> 0, text |-> txt]

ToolMessage(id, txt) ==
    [role |-> "ToolResult", toolCalls |-> <<>>, toolCallId |-> id, text |-> txt]

\* The tools bound to the graph: llm.bind_tools(tools) and ToolNode(tools).
tools == bound

\* What the remote catalog can list: the server's calculate, alone or with
\* a tool the programs have no wrapper for.
Catalogs == {{"calculate"}, {"calculate", "other"}}

\* A create_graph that binds the discovered catalog in every program.
BoundToolsFromCatalog(cat) == cat

\* The tools create_graph binds: main_mcp passes the tools that
\* load_mcp_tools made of the catalog; main_normal and main_mcp_async use
\* their module-level tools = [calculate], whatever the catalog lists.
BoundTools(cat) == IF entry = "mcp" THEN cat ELSE {"calculate"}

\* One LLM reply: a sequence of k requests with fresh ids.
Requests(nid, k, names, args) ==
    [i \in 1..k |-> [id |-> nid + i - 1, name |-> names[i], args |-> args[i]]]

PlainRequest(nid) == Requests(nid, 1, <<"calculate">>, <<"valid">>)

\* k requests for calculate with valid arguments, but for request j, which
\* names tool n with arguments ak.
OneOdd(nid, k, j, n, ak) ==
    Requests(nid, k, [i \in 1..k |-> IF i = j THEN n ELSE "calculate"],
                     [i \in 1..k |-> IF i = j THEN ak ELSE "valid"])

\* What llm_with_tools.invoke(messages) can return: no request, one plain
\* request, or (rich) up to MaxCalls requests of which one may name an
\* unknown tool or carry invalid arguments.
LLMReplies(nid, toolsAllowed, richAllowed) ==
    {<<>>}
    \cup (IF toolsAllowed THEN {PlainRequest(nid)} ELSE {})
    \cup (IF toolsAllowed /\ richAllowed
          THEN {OneOdd(nid, k, j, n, ak) :
                  k \in 1..MaxCalls, j \in 1..MaxCalls, n \in ToolNames, ak \in ArgKinds}
          ELSE {})

\* A routing that goes to the tools whatever the last message holds.
tools_condition_always(msgs) == "tools"

\* tools_condition: "tools" when the last message carries tool calls.
tools_condition(msgs) ==
    IF msgs[Len(msgs)].role = "Assistant" /\ msgs[Len(msgs)].toolCalls # <<>>
    THEN "tools" ELSE "__end__"

\* ------------------------------------------------- MCPClientManager
\* A connect() that yields a session whose initialize handshake has not
\* completed.
connectUninitialized ==
    /\ nsess' = nsess + 1
    /\ session' = nsess + 1
    /\ conn' = "ok"
    /\ UNCHANGED <<live, broken, attempts, lastCall, callResult>>

\* connect(), up to the yield: the transport is opened, the session is
\* initialized and stored in self.session.
connect ==
    /\ nsess' = nsess + 1
    /\ live' = live \cup {nsess + 1}
    /\ session' = nsess + 1
    /\ conn' = "ok"
    /\ UNCHANGED <<broken, attempts, lastCall, callResult>>

\* A connect() that stores the session before initialize() has succeeded.
ConnectRaiseKeepsSession ==
    /\ conn' = "raised"
    /\ session' = nsess + 1
    /\ nsess' = nsess + 1
    /\ UNCHANGED <<live, broken, attempts, lastCall, callResult>>

\* connect() when streamablehttp_client or session.initialize() raises: both
\* context managers unwind, self.session is not assigned.
ConnectRaise ==
    /\ conn' = "raised"
    /\ UNCHANGED <<session, live, broken, nsess, attempts, lastCall, callResult>>

\* A scope exit that leaves the transport open.
ScopeExitLeaks(s) ==
    UNCHANGED <<conn, session, live, broken, nsess, attempts, lastCall, callResult>>

\* Leaving the `async with` of connect() for session s: ClientSession and
\* the transport are closed. self.session is not touched.
ScopeExit(s) ==
    /\ live' = live \ {s}
    /\ broken' = broken \ {s}
    /\ UNCHANGED <<conn, session, nsess, attempts, lastCall, callResult>>

\* The guard of call_tool: `if not self.session: raise RuntimeError`.
SessionMissing == session = 0

\* Whether a request on session s can reach the remote process.
Usable(s) == s \in live /\ s \notin broken

\* What self.session.call_tool can do on session s.
RemoteOutcomes(s) ==
    IF Usable(s) THEN {"text", "errtext", "drop"} ELSE {"drop"}

\* ------------------------------------------------- ToolNode
\* What the handler of one tool can do once it runs.
Outcomes ==
    IF Local THEN {"text", "errtext"} ELSE RemoteOutcomes(session)

\* ToolNode starting one call: an unknown name and invalid arguments are
\* answered by ToolNode itself; calculate_mcp -> call_tool raises when the
\* manager holds no session; otherwise the handler runs.
StartCall(req) ==
    IF req.name \notin tools THEN [st |-> "done", text |-> "NotAValidTool"]
    ELSE IF req.args = "invalid" THEN [st |-> "done", text |-> "InvocationError"]
    ELSE IF entry = "mcp_async" /\ SessionMissing
         THEN [st |-> "raised", text |-> "NotInitialized"]
    ELSE [st |-> "running", text |-> ""]

\* ToolNode's handling of an exception raised by a tool, per the default
\* handle_tool_errors of the installed library.
Handled(c) ==
    IF c.st = "raised" /\ handleAll
    THEN [st |-> "done", text |-> "HandledError"] ELSE c

\* Whether the handler's outcome is an exception: a dropped transport; and
\* for the tools of load_mcp_tools an error payload (ToolException).
Raises(out) ==
    \/ out = "drop"
    \/ out = "errtext" /\ entry = "mcp"

\* What the handler gives ToolNode: the @tool of main_normal and call_tool
\* of main_mcp_async return a string for a result and for an error payload
\* alike; the tools of load_mcp_tools raise ToolException on an error
\* payload; a dropped transport raises in both remote programs.
HandlerResult(out) ==
    IF out = "drop" THEN "TransportError"
    ELSE IF out = "errtext" /\ entry = "mcp" THEN "ToolException"
    ELSE "Text"

\* The call record for a finished handler.
Finished(out) ==
    Handled(IF Raises(out) THEN [st |-> "raised", text |-> out]
            ELSE [st |-> "done",
                  text |-> IF out = "text" THEN "Result" ELSE "ErrorText"])

\* ToolMessages emitted as the calls complete instead of as requested.
ToolOutputsAsCompleted(reqs, cs, ord) ==
    [i \in 1..Len(reqs) |->
        IF Len(ord) = Len(reqs)
        THEN ToolMessage(reqs[ord[i]].id, cs[ord[i]].text)
        ELSE ToolMessage(reqs[i].id, cs[i].text)]

\* ToolMessages for all requests but the last.
ToolOutputsDropLast(reqs, cs, ord) ==
    [i \in 1..Len(reqs) - 1 |-> ToolMessage(reqs[i].id, cs[i].text)]

\* The ToolMessages of a ToolNode step: one per request, in request order,
\* whatever the order of completion.
ToolOutputs(reqs, cs, ord) ==
    [i \in 1..Len(reqs) |-> ToolMessage(reqs[i].id, cs[i].text)]

LastAI == messages[Len(messages)]

\* ------------------------------------------------- graph run
\* graph.invoke({"messages": [HumanMessage(...)]})
StartGraph ==
    /\ loop' = "AwaitingModel"
    /\ messages' = <<HumanMessage>>
    /\ UNCHANGED <<err, step, calls, order, llmCalls, richOK, faultsLeft, roundsLeft,
                   nextId>>

\* The unconditional edges out of "agent": main_tools adds agent -> END
\* next to the conditional edge; the other programs add none.
AgentEdges == IF entry = "tools" THEN {"__end__"} ELSE {}

\* A routing in which an unconditional edge out of "agent" overrides the
\* conditional one.
AgentTargetsStaticFirst(msgs) ==
    IF AgentEdges # {} THEN AgentEdges ELSE {tools_condition(msgs)}

\* Where the run goes after "agent": the target tools_condition picks and
\* the targets of the unconditional edges, all followed together.
AgentTargets(msgs) == {tools_condition(msgs)} \cup AgentEdges

\* The routing of the agent node without a bound on supersteps.
AfterAgentUnbounded(msgs, st) ==
    IF "tools" \notin AgentTargets(msgs) THEN "Terminated" ELSE "DispatchingTools"

\* The state the agent node leaves the run in: END is not a node, so the
\* run is over unless the ToolNode is among the targets; a further
\* superstep needs step < RecursionLimit.
AfterAgent(msgs, st) ==
    IF "tools" \notin AgentTargets(msgs) THEN "Terminated"
    ELSE IF st >= RecursionLimit THEN "Raised"
    ELSE "DispatchingTools"

\* Node "agent": call_model appends the LLM's reply.
call_model(reply) ==
    /\ pc = "running"
    /\ loop = "AwaitingModel"
    /\ reply \in LLMReplies(nextId, roundsLeft > 0, richOK)
    /\ messages' = Append(messages, AIMessage(reply))
    /\ step' = step + 1
    /\ llmCalls' = llmCalls + 1
    /\ nextId' = nextId + Len(reply)
    /\ richOK' = FALSE
    /\ roundsLeft' = roundsLeft - (IF reply = <<>> THEN 0 ELSE 1)
    /\ loop' = AfterAgent(messages', step')
    /\ err' = IF loop' = "Raised" THEN "GraphRecursionError" ELSE err
    /\ UNCHANGED <<graphVars, pureVars>>
    /\ UNCHANGED <<calls, order, faultsLeft, apiCalls, entry, handleAll, pc>>
    /\ UNCHANGED mgrVars

\* Node "tools", first part: every requested call is started, in request
\* order; each started remote handler issues ClientSession.call_tool.
StartTools ==
    /\ pc = "running"
    /\ loop = "DispatchingTools"
    /\ calls = <<>>
    /\ LET reqs == LastAI.toolCalls
           raw == [i \in 1..Len(reqs) |-> StartCall(reqs[i])]
           cs == [i \in 1..Len(reqs) |-> Handled(raw[i])]
           n == Cardinality({i \in 1..Len(reqs) : raw[i].st = "running"})
       IN /\ IF \E i \in 1..Len(reqs) : cs[i].st = "raised"
             THEN loop' = "Raised" /\ err' = "ToolError"
             ELSE loop' = loop /\ err' = err
          /\ calls' = cs
          /\ attempts' = IF Local THEN attempts ELSE attempts + n
    /\ order' = <<>>
    /\ UNCHANGED <<messages, step, llmCalls, richOK, faultsLeft, roundsLeft, nextId, apiCalls>>
    /\ UNCHANGED <<graphVars, pureVars>>
    /\ UNCHANGED <<entry, handleAll, pc, conn, session, live, broken, nsess, lastCall,
                   callResult>>

\* An outcome the environment chooses: anything but a plain result, unless
\* the session is already unusable and the call can only fail.
IsFault(out) == out # "text" /\ (Local \/ Usable(session))

\* One running call completes with outcome out.
Complete(i, out) ==
    /\ pc = "running"
    /\ loop = "DispatchingTools"
    /\ i \in 1..Len(calls)
    /\ calls[i].st = "running"
    /\ out \in Outcomes
    /\ IsFault(out) => faultsLeft > 0
    /\ faultsLeft' = faultsLeft - (IF IsFault(out) THEN 1 ELSE 0)
    /\ calls' = [calls EXCEPT ![i] = Finished(out)]
    /\ order' = Append(order, i)
    /\ broken' = IF out = "drop" THEN broken \cup {session} ELSE broken
    /\ lastCall' = out
    /\ callResult' = HandlerResult(out)
    /\ IF calls'[i].st = "raised"
       THEN loop' = "Raised" /\ err' = "ToolError"
       ELSE loop' = loop /\ err' = err
    /\ UNCHANGED <<messages, step, llmCalls, richOK, roundsLeft, nextId, apiCalls>>
    /\ UNCHANGED <<graphVars, pureVars>>
    /\ UNCHANGED <<entry, handleAll, pc, conn, session, live, nsess, attempts>>

\* Node "tools", last part: all calls are done, the ToolMessages are
\* appended and the edge tools -> agent is followed.
FinishTools ==
    /\ pc = "running"
    /\ loop = "DispatchingTools"
    /\ calls # <<>>
    /\ \A i \in 1..Len(calls) : calls[i].st = "done"
    /\ messages' = messages \o ToolOutputs(LastAI.toolCalls, calls, order)
    /\ step' = step + 1
    /\ calls' = <<>>
    /\ loop' = "AwaitingModel"
    /\ UNCHANGED <<err, order, llmCalls, richOK, faultsLeft, roundsLeft, nextId, apiCalls>>
    /\ UNCHANGED <<graphVars, pureVars>>
    /\ UNCHANGED <<entry, handleAll, pc>>
    /\ UNCHANGED mgrVars

\* ------------------------------------------------- main()
\* main_normal.main, main_tools.main: graph = create_graph();
\* graph.invoke(...)
MainInvoke ==
    /\ Local
    /\ pc = "start"
    /\ pc' = "running"
    /\ StartGraph
    /\ bound' = BoundTools(catalog)
    /\ UNCHANGED catalog
    /\ UNCHANGED pureVars
    /\ UNCHANGED <<entry, handleAll, apiCalls>>
    /\ UNCHANGED mgrVars

\* `async with mcp_manager.connect()` entered.
MainConnect ==
    /\ entry \in {"mcp", "mcp_async"}
    /\ pc = "start"
    /\ connect
    /\ pc' = "connected"
    /\ UNCHANGED <<graphVars, pureVars>>
    /\ UNCHANGED <<entry, handleAll, apiCalls>>
    /\ UNCHANGED loopVars

\* Where main() ends when an exception leaves the connect scope: the
\* `except Exception` of main_mcp_async returns; main_mcp lets it out.
AfterException == IF entry = "mcp_async" THEN "failed" ELSE "crashed"

\* connect() raises: unreachable endpoint, rejected handshake, timeout.
MainConnectFails ==
    /\ entry \in {"mcp", "mcp_async"}
    /\ pc = "start"
    /\ ConnectRaise
    /\ pc' = AfterException
    /\ UNCHANGED <<graphVars, pureVars>>
    /\ UNCHANGED <<entry, handleAll, apiCalls>>
    /\ UNCHANGED loopVars

\* session.list_tools() / load_mcp_tools(session), then create_graph and
\* graph.ainvoke with the Human turn.
MainLoadTools ==
    /\ pc = "connected"
    /\ pc' = "running"
    /\ catalog' \in Catalogs
    /\ bound' = BoundTools(catalog')
    /\ StartGraph
    /\ UNCHANGED pureVars
    /\ UNCHANGED <<entry, handleAll, apiCalls>>
    /\ UNCHANGED mgrVars

\* The catalog request raises inside the scope: the scope is left.
MainLoadToolsFails ==
    /\ pc = "connected"
    /\ ScopeExit(session)
    /\ pc' = AfterException
    /\ UNCHANGED <<graphVars, pureVars>>
    /\ UNCHANGED <<entry, handleAll, apiCalls>>
    /\ UNCHANGED loopVars

\* main() is over (or cancelled): the run's state, local to graph.invoke and
\* main, is gone.
DiscardRun ==
    /\ loop' = "Gone"
    /\ messages' = <<>>
    /\ calls' = <<>>
    /\ order' = <<>>
    /\ step' = 0
    /\ UNCHANGED <<err, llmCalls, richOK, faultsLeft, roundsLeft, nextId>>

\* The graph run returned: print_messages(result), end of the scope.
MainReturn ==
    /\ pc = "running"
    /\ loop = "Terminated"
    /\ IF Local THEN UNCHANGED mgrVars ELSE ScopeExit(session)
    /\ pc' = "done"
    /\ UNCHANGED <<graphVars, pureVars>>
    /\ UNCHANGED <<entry, handleAll, apiCalls>>
    /\ DiscardRun

\* The graph run raised: main_mcp_async catches it inside the scope and goes
\* on to the end of the scope; main_mcp and main_normal let it out.
MainLoopRaised ==
    /\ pc = "running"
    /\ loop = "Raised"
    /\ IF Local THEN UNCHANGED mgrVars ELSE ScopeExit(session)
    /\ pc' = IF entry = "mcp_async" THEN "done" ELSE "crashed"
    /\ UNCHANGED <<graphVars, pureVars>>
    /\ UNCHANGED <<entry, handleAll, apiCalls>>
    /\ DiscardRun

\* KeyboardInterrupt / cancellation of main() inside the scope: not an
\* Exception, so no handler of main catches it; the scope is left.
MainInterrupted ==
    /\ entry \in {"mcp", "mcp_async"}
    /\ pc \in {"connected", "running"}
    /\ ScopeExit(session)
    /\ pc' = "interrupted"
    /\ UNCHANGED <<graphVars, pureVars>>
    /\ UNCHANGED <<entry, handleAll, apiCalls>>
    /\ DiscardRun

Init ==
    /\ entry \in Entries
    /\ handleAll \in BOOLEAN
    /\ pc = "start"
    /\ conn = "none"
    /\ session = 0
    /\ live = {}
    /\ broken = {}
    /\ nsess = 0
    /\ attempts = 0
    /\ lastCall = "none"
    /\ loop = "Idle"
    /\ err = "none"
    /\ messages = <<>>
    /\ step = 0
    /\ calls = <<>>
    /\ order = <<>>
    /\ llmCalls = 0
    /\ richOK = TRUE
    /\ faultsLeft = MaxFaults
    /\ roundsLeft = MaxRounds
    /\ nextId = 1
    /\ apiCalls = 0
    /\ callResult = "none"
    /\ catalog = {}
    /\ bound = {}
    /\ content = <<>>
    /\ text = <<>>
    /\ operation = "none"
    /\ a = 0
    /\ b = 0
    /\ result = "none"

Next ==
    \/ MainInvoke
    \/ MainConnect
    \/ MainConnectFails
    \/ MainLoadTools
    \/ MainLoadToolsFails
    \/ \E reply \in LLMReplies(nextId, TRUE, TRUE) : call_model(reply)
    \/ StartTools
    \/ \E i \in 1..MaxCalls + 1, out \in {"text", "errtext", "drop"} : Complete(i, out)
    \/ FinishTools
    \/ MainReturn
    \/ MainLoopRaised
    \/ MainInterrupted

Spec == Init /\ [][Next]_vars

\* The long run: the modelled LLM gives plain replies only, and may go on
\* requesting tools up to the recursion limit.
InitLimit ==
    /\ entry \in Entries
    /\ handleAll \in BOOLEAN
    /\ pc = "start"
    /\ conn = "none"
    /\ session = 0
    /\ live = {}
    /\ broken = {}
    /\ nsess = 0
    /\ attempts = 0
    /\ lastCall = "none"
    /\ loop = "Idle"
    /\ err = "none"
    /\ messages = <<>>
    /\ step = 0
    /\ calls = <<>>
    /\ order = <<>>
    /\ llmCalls = 0
    /\ richOK = FALSE
    /\ faultsLeft = MaxFaults
    /\ roundsLeft = RecursionLimit
    /\ nextId = 1
    /\ apiCalls = 0
    /\ callResult = "none"
    /\ catalog = {}
    /\ bound = {}
    /\ content = <<>>
    /\ text = <<>>
    /\ operation = "none"
    /\ a = 0
    /\ b = 0
    /\ result = "none"

SpecLimit == InitLimit /\ [][Next]_vars

\* ------------------------------------------------- the manager on its own
\* A client that uses the global mcp_manager freely: it enters connect(),
\* leaves scopes and calls call_tool in any order.
ApiConnect ==
    /\ pc = "api"
    /\ nsess < MaxSessions
    /\ connect
    /\ UNCHANGED <<graphVars, pureVars>>
    /\ UNCHANGED <<entry, handleAll, pc, apiCalls>>
    /\ UNCHANGED loopVars

ApiConnectFails ==
    /\ pc = "api"
    /\ nsess < MaxSessions
    /\ ConnectRaise
    /\ UNCHANGED <<graphVars, pureVars>>
    /\ UNCHANGED <<entry, handleAll, pc, apiCalls>>
    /\ UNCHANGED loopVars

ApiScopeExit(s) ==
    /\ pc = "api"
    /\ s \in live
    /\ ScopeExit(s)
    /\ UNCHANGED <<graphVars, pureVars>>
    /\ UNCHANGED <<entry, handleAll, pc, apiCalls>>
    /\ UNCHANGED loopVars

\* call_tool: the guard on self.session, then self.session.call_tool, then
\* the conversion of the result to text.
call_tool(out) ==
    IF SessionMissing
    THEN /\ lastCall' = "NotInitialized"
         /\ callResult' = "RuntimeError"
         /\ UNCHANGED <<conn, session, live, broken, nsess, attempts>>
    ELSE /\ out \in RemoteOutcomes(session)
         /\ attempts' = attempts + 1
         /\ lastCall' = out
         /\ callResult' = HandlerResult(out)
         /\ broken' = IF out = "drop" /\ session \in live
                      THEN broken \cup {session} ELSE broken
         /\ UNCHANGED <<conn, session, live, nsess>>

ApiCallTool(out) ==
    /\ pc = "api"
    /\ apiCalls < MaxApiCalls
    /\ apiCalls' = apiCalls + 1
    /\ call_tool(out)
    /\ UNCHANGED <<graphVars, pureVars>>
    /\ UNCHANGED <<entry, handleAll, pc>>
    /\ UNCHANGED loopVars

InitManager ==
    /\ entry = "mcp_async"
    /\ handleAll \in BOOLEAN
    /\ pc = "api"
    /\ conn = "none"
    /\ session = 0
    /\ live = {}
    /\ broken = {}
    /\ nsess = 0
    /\ attempts = 0
    /\ lastCall = "none"
    /\ loop = "Idle"
    /\ err = "none"
    /\ messages = <<>>
    /\ step = 0
    /\ calls = <<>>
    /\ order = <<>>
    /\ llmCalls = 0
    /\ richOK = FALSE
    /\ faultsLeft = 0
    /\ roundsLeft = 0
    /\ nextId = 1
    /\ apiCalls = 0
    /\ callResult = "none"
    /\ catalog = {}
    /\ bound = {}
    /\ content = <<>>
    /\ text = <<>>
    /\ operation = "none"
    /\ a = 0
    /\ b = 0
    /\ result = "none"

NextManager ==
    \/ ApiConnect
    \/ ApiConnectFails
    \/ \E s \in 1..MaxSessions : ApiScopeExit(s)
    \/ \E out \in {"text", "errtext", "drop"} : ApiCallTool(out)

SpecManager == InitManager /\ [][NextManager]_vars

\* ------------------------------------------------- call_tool's text
\* Strings are sequences of characters. The texts a content item can carry:
\* empty, one character, and a text that itself holds a newline.
Texts == {<<>>, <<"7">>, <<"a", "\n", "b">>}

\* CallToolResult.content items: TextContent, and one item of another type.
Items == {[type |-> "text", text |-> t] : t \in Texts}
         \cup {[type |-> "image", text |-> <<>>]}

Contents == UNION {[1..n -> Items] : n \in 0..MaxItems}

\* str(item) of a non-text item: the repr of the model.
Str(item) == <<"type='", item.type, "'">>

\* item.text if isinstance(item, TextContent) else str(item)
ItemText(item) == IF item.type = "text" THEN item.text ELSE Str(item)

\* A join that ends every part with the separator.
RECURSIVE JoinTerminated(_, _)
JoinTerminated(sep, parts) ==
    IF parts = <<>> THEN <<>>
    ELSE Head(parts) \o sep \o JoinTerminated(sep, Tail(parts))

\* sep.join(parts)
RECURSIVE Join(_, _)
Join(sep, parts) ==
    IF parts = <<>> THEN <<>>
    ELSE IF Len(parts) = 1 THEN parts[1]
    ELSE Head(parts) \o sep \o Join(sep, Tail(parts))

\* The conversion at the end of call_tool: the joined texts if
\* result.content is non-empty, "" otherwise.
ContentText(c) ==
    IF c # <<>> THEN Join(<<"\n">>, [i \in DOMAIN c |-> ItemText(c[i])])
    ELSE <<>>

\* call_tool converts the content it was given.
Convert ==
    /\ pc = "convert"
    /\ text' = ContentText(content)
    /\ pc' = "converted"
    /\ UNCHANGED <<entry, handleAll, apiCalls, content, operation, a, b, result>>
    /\ UNCHANGED <<mgrVars, loopVars, graphVars>>

\* The state of everything that plays no part in a run of one function.
NoProgram ==
    /\ entry = "mcp_async"
    /\ handleAll = FALSE
    /\ conn = "none"
    /\ session = 0
    /\ live = {}
    /\ broken = {}
    /\ nsess = 0
    /\ attempts = 0
    /\ lastCall = "none"
    /\ loop = "Idle"
    /\ err = "none"
    /\ messages = <<>>
    /\ step = 0
    /\ calls = <<>>
    /\ order = <<>>
    /\ llmCalls = 0
    /\ richOK = FALSE
    /\ faultsLeft = 0
    /\ roundsLeft = 0
    /\ nextId = 1
    /\ apiCalls = 0
    /\ callResult = "none"
    /\ catalog = {}
    /\ bound = {}

InitText ==
    /\ NoProgram
    /\ pc = "convert"
    /\ content \in Contents
    /\ text = <<>>
    /\ operation = "none"
    /\ a = 0
    /\ b = 0
    /\ result = "none"

NextText == Convert

SpecText == InitText /\ [][NextText]_vars

\* ------------------------------------------------- calculate
\* The operation names tried: the four of ops and one that is not in ops.
Operations == {"add", "subtract", "multiply", "divide", "power"}

\* The numbers tried for a and b: whole values around zero stand for the
\* floats; a quotient is kept exact, as a pair <<numerator, denominator>>.
Numbers == (0 - MaxNum)..MaxNum

RECURSIVE GCD(_, _)
GCD(x, y) == IF y = 0 THEN x ELSE GCD(y, x % y)

Abs(x) == IF x < 0 THEN 0 - x ELSE x

\* The value n / d in lowest terms with a positive denominator, d # 0.
Ratio(n, d) ==
    LET g == GCD(Abs(n), Abs(d))
        sg == IF d < 0 THEN 0 - 1 ELSE 1
    IN <<(sg * n) \div g, Abs(d) \div g>>

\* ops: operation name -> (function, symbol)
ops ==
    [add |-> [func |-> "operator.add", symbol |-> "+"],
     subtract |-> [func |-> "operator.sub", symbol |-> "-"],
     multiply |-> [func |-> "operator.mul", symbol |-> "*"],
     divide |-> [func |-> "operator.truediv", symbol |-> "/"]]

\* func(a, b): truediv raises ZeroDivisionError on a zero divisor.
Apply(func, x, y) ==
    IF func = "operator.add" THEN [raised |-> "none", val |-> Ratio(x + y, 1)]
    ELSE IF func = "operator.sub" THEN [raised |-> "none", val |-> Ratio(x - y, 1)]
    ELSE IF func = "operator.mul" THEN [raised |-> "none", val |-> Ratio(x * y, 1)]
    ELSE IF y = 0 THEN [raised |-> "ZeroDivisionError", val |-> <<0, 1>>]
    ELSE [raised |-> "none", val |-> Ratio(x, y)]

\* A returned string, as the sequence of its parts.
Returned(parts) == [raised |-> "none", text |-> parts]

\* calculate without the test for a zero divisor.
calculateUnguarded(op, x, y) ==
    IF op \notin DOMAIN ops
    THEN Returned(<<"Error: Unknown operation '", op, "'">>)
    ELSE LET r == Apply(ops[op].func, x, y)
         IN IF r.raised # "none" THEN [raised |-> r.raised, text |-> <<>>]
            ELSE Returned(<<"Result: ", x, " ", ops[op].symbol, " ", y, " = ", r.val>>)

\* calculate(operation, a, b)
calculate(op, x, y) ==
    IF op \notin DOMAIN ops
    THEN Returned(<<"Error: Unknown operation '", op, "'">>)
    ELSE IF op = "divide" /\ y = 0
    THEN Returned(<<"Error: Division by zero">>)
    ELSE LET r == Apply(ops[op].func, x, y)
         IN IF r.raised # "none" THEN [raised |-> r.raised, text |-> <<>>]
            ELSE Returned(<<"Result: ", x, " ", ops[op].symbol, " ", y, " = ", r.val>>)

\* The tool is called with the arguments drawn.
Calculate ==
    /\ pc = "calc"
    /\ result' = calculate(operation, a, b)
    /\ pc' = "calculated"
    /\ UNCHANGED <<entry, handleAll, apiCalls, content, text, operation, a, b>>
    /\ UNCHANGED <<mgrVars, loopVars, graphVars>>

InitCalc ==
    /\ NoProgram
    /\ pc = "calc"
    /\ content = <<>>
    /\ text = <<>>
    /\ operation \in Operations
    /\ a \in Numbers
    /\ b \in Numbers
    /\ result = Returned(<<>>)

NextCalc == Calculate

SpecCalc == InitCalc /\ [][NextCalc]_vars

\* ================================================================ properties
Roles(r) == {i \in DOMAIN messages : messages[i].role = r}

ShapeOK ==
    /\ Len(messages) >= 2
    /\ messages[1].role = "Human"
    /\ messages[2].role = "Assistant"
    /\ \A i \in 2..Len(messages) : messages[i].role \in {"Assistant", "ToolResult"}

\* C1: when the loop started on one Human turn reaches Terminated, the
\* conversation is Human, Assistant, (ToolResult* Assistant)*, every
\* ToolResult carries the id of a request of an earlier Assistant turn, and
\* the last turn is an Assistant turn without tool calls.
C1_RoundTrip ==
    loop = "Terminated" =>
        /\ ShapeOK
        /\ \A i \in Roles("ToolResult") :
              \E p \in 1..i - 1 :
                 /\ messages[p].role = "Assistant"
                 /\ \E j \in DOMAIN messages[p].toolCalls :
                       messages[p].toolCalls[j].id = messages[i].toolCallId
        /\ messages[Len(messages)].role = "Assistant"
        /\ messages[Len(messages)].toolCalls = <<>>

\* A terminated run with a multi-request round and a further round.
C1_Witness ==
    /\ loop = "Terminated"
    /\ Cardinality(Roles("ToolResult")) > MaxCalls
    /\ Cardinality(Roles("Assistant")) >= 3

\* C2: the ToolResult turns that follow an Assistant turn answer its
\* requests in request order, whatever order the calls completed in.
C2_RequestOrder ==
    \A p \in Roles("Assistant") :
        p < Len(messages) =>
            \A i \in DOMAIN messages[p].toolCalls :
                /\ p + i <= Len(messages)
                /\ messages[p + i].role = "ToolResult"
                /\ messages[p + i].toolCallId = messages[p].toolCalls[i].id

\* Three calls A, B, C ran, C completed first and A last, and the results
\* have been appended.
C2_Witness ==
    /\ loop = "AwaitingModel"
    /\ order = <<3, 2, 1>>
    /\ messages[Len(messages)].role = "ToolResult"

\* C3: the failure of a single tool call (call_tool raising) never aborts
\* the loop: no graph run of main_mcp_async ends with the exception of a
\* tool.
C3_NeverAborts == entry = "mcp_async" => ~(loop = "Raised" /\ err = "ToolError")

\* C4: once the transport of the manager's session has dropped during an
\* invoke, no later invoke through the manager (main_mcp_async) issues a
\* remote call.
C4_FailFast ==
    [][(entry = "mcp_async" /\ session \in broken) => (attempts' = attempts)]_vars

\* C5: call_tool on a manager that is not Connected fails with the
\* not-initialized error and issues no remote call.
C5_OnlyConnected ==
    [][(apiCalls' = apiCalls + 1 /\ session \notin live)
          => (attempts' = attempts /\ lastCall' = "NotInitialized")]_vars

\* Tool-requesting Assistant turns of the conversation.
ToolTurns ==
    {i \in Roles("Assistant") : messages[i].toolCalls # <<>>}

\* Dispatch rounds completed by the run.
Rounds == step - llmCalls

\* Most dispatch rounds a run can complete under the recursion limit.
MaxToolRounds == (RecursionLimit - 1) \div 2

LoopMoves == loop' # loop /\ loop' # "Gone"

\* No LLM call, no tool invoke and no change of the conversation.
Quiet ==
    /\ llmCalls' = llmCalls
    /\ attempts' = attempts
    /\ loop' = "Gone" \/ messages' = messages

IsPrefix(s, t) ==
    /\ Len(s) <= Len(t)
    /\ \A i \in 1..Len(s) : t[i] = s[i]

C9_ConnectFailure ==
    conn = "raised" =>
        /\ pc \in {"failed", "crashed"}
        /\ session = 0
        /\ live = {}
        /\ loop = "Idle"
        /\ llmCalls = 0
        /\ attempts = 0

C9_Witness == conn = "raised" /\ pc = "failed" /\ entry = "mcp_async"

\* C10: once main() is over, however it ended, no transport is open.
C10_Released ==
    pc \in {"done", "failed", "crashed", "interrupted"} => live = {}

\* Runs that had connected and ended by interruption or by an exception.
C10_Witness ==
    /\ conn = "ok"
    /\ pc \in {"interrupted", "crashed"}
    /\ live = {}

\* C11: when the remote answers an invocation with an error payload, that
\* invocation fails with a tool-execution error (neither a returned text
\* nor a transport error) and the session stays usable.
C11_ErrorDistinguished ==
    lastCall = "errtext" => (callResult = "ToolException" /\ Usable(session))

\* C12: leaving the connect scope of the manager's session leaves the
\* manager Unconnected: its own state reports no session any more.
C12_Teardown ==
    [][(session \in live /\ session \notin live') => (session' = 0)]_vars

\* C13: under any sequence of connect() calls and scope exits on the one
\* manager, at most one session is live: never two open transports.
C13_OneLiveSession == Cardinality(live) <= 1

\* C14: once a transport error has hit the manager's session, no operation on
\* the manager, connect() included, makes it hold a usable session again.
C14_FailedTerminal ==
    [][(session \in broken) => ~(Usable(session))']_vars

Remote == entry \in {"mcp", "mcp_async"}

\* C15 as stated: in the remote programs the tools advertised to the LLM are
\* the ones discovered in the catalog.
C15_AdvertisedIsCatalog == (Remote /\ pc = "running") => bound = catalog

\* C15: in the remote programs the catalog is read before the first LLM
\* call; main_mcp advertises the discovered tools, main_mcp_async advertises
\* its fixed calculate wrapper whatever the catalog lists.
C15_CatalogFirst ==
    /\ (Remote /\ llmCalls > 0) => catalog \in Catalogs
    /\ (entry = "mcp" /\ pc = "running") => bound = catalog
    /\ (entry = "mcp_async" /\ pc = "running") => bound = {"calculate"}

\* main_mcp_async talks to the LLM while the catalog lists a second tool.
C15_Witness ==
    /\ entry = "mcp_async"
    /\ llmCalls > 0
    /\ catalog = {"calculate", "other"}
    /\ bound = {"calculate"}

RECURSIVE Offset(_, _)
\* Where the text of item i starts in the joined string (0-based).
Offset(c, i) == IF i = 1 THEN 0 ELSE Offset(c, i - 1) + Len(ItemText(c[i - 1])) + 1

\* C16: call_tool's string holds the items' texts in their order, one
\* newline between neighbours and nothing else: a text item gives its text,
\* another item its str(); no item gives "", one item gives its text alone.
C16_JoinedText ==
    pc = "converted" =>
        /\ content = <<>> => text = <<>>
        /\ Len(content) = 1 => text = ItemText(content[1])
        /\ content # <<>> =>
              /\ Len(text) = Offset(content, Len(content))
                             + Len(ItemText(content[Len(content)]))
              /\ \A i \in DOMAIN content :
                    /\ SubSeq(text, Offset(content, i) + 1,
                              Offset(content, i) + Len(ItemText(content[i])))
                         = ItemText(content[i])
                    /\ i > 1 => text[Offset(content, i)] = "\n"

\* Three items were converted: a text, a non-text item and a text holding a
\* newline of its own.
C16_Witness ==
    /\ pc = "converted"
    /\ Len(content) = 3
    /\ content[1].type = "text" /\ content[1].text # <<>>
    /\ content[2].type = "image"
    /\ content[3].text = <<"a", "\n", "b">>

\* The symbols the four operations are printed with.
Symbol(op) ==
    IF op = "add" THEN "+" ELSE IF op = "subtract" THEN "-"
    ELSE IF op = "multiply" THEN "*" ELSE "/"

\* Whether the exact value v = <<n, d>> is a op b.
IsValue(v, op, x, y) ==
    /\ v[2] > 0
    /\ IF op = "add" THEN v[1] = (x + y) * v[2]
       ELSE IF op = "subtract" THEN v[1] + y * v[2] = x * v[2]
       ELSE IF op = "multiply" THEN v[1] = x * y * v[2]
       ELSE v[1] * y = x * v[2]

\* C17: calculate returns a text and never raises: the unknown-operation
\* text for an operation outside add/subtract/multiply/divide (b = 0 or
\* not), exactly the division-by-zero text for divide with b = 0, and
\* otherwise "Result: a <symbol> b = <value>" with the operation's value.
C17_Calculate ==
    pc = "calculated" =>
        /\ result.raised = "none"
        /\ IF operation \notin {"add", "subtract", "multiply", "divide"}
           THEN result.text = <<"Error: Unknown operation '", operation, "'">>
           ELSE IF operation = "divide" /\ b = 0
           THEN result.text = <<"Error: Division by zero">>
           ELSE /\ Len(result.text) = 8
                /\ SubSeq(result.text, 1, 7)
                     = <<"Result: ", a, " ", Symbol(operation), " ", b, " = ">>
                /\ IsValue(result.text[8], operation, a, b)

\* divide was called with a zero divisor and answered.
C17_Witness ==
    /\ pc = "calculated"
    /\ operation = "divide"
    /\ b = 0
    /\ a # 0
    /\ result.text = <<"Error: Division by zero">>

\* The routing of main_normal's graph, whose only edge out of "agent" is the
\* conditional one.
NormalRoute(msgs, st) ==
    IF tools_condition(msgs) = "__end__" THEN "Terminated"
    ELSE IF st >= RecursionLimit THEN "Raised"
    ELSE "DispatchingTools"

\* C18: the graph of main_tools, with its extra edge agent -> END, goes on
\* after every Assistant turn exactly as the graph of main_normal does on
\* the same conversation: to the tools when the turn requests any, to the
\* end otherwise.
C18_SameRouting ==
    [][(entry = "tools" /\ loop = "AwaitingModel" /\ loop' # loop)
         => (loop' = NormalRoute(messages', step'))]_vars

\* main_tools ran a tool round and then ended on a request-free turn.
C18_Witness ==
    /\ entry = "tools"
    /\ loop = "Terminated"
    /\ Roles("ToolResult") # {}

\* C19: in the MCP programs every remote invocation the loop issues is made
\* while main() is inside the connect scope, on the session that scope
\* initialized and has not released yet.
C19_InvokeInScope ==
    [][(Remote /\ attempts' # attempts)
         => (pc = "running" /\ pc' = "running"
             /\ session # 0 /\ session \in live /\ session' \in live')]_vars

\* A remote invocation was issued and answered inside the scope.
C19_Witness ==
    /\ Remote
    /\ pc = "running"
    /\ attempts > 0
    /\ session \in live
    /\ lastCall = "text"

====
